---- MODULE Spec2Model ----
(***************************************************************************)
(* JobAgent front-end: the three views (dashboard, jobs table, kanban      *)
(* pipeline), the job detail panel and the api.js wrapper, as one state    *)
(* machine over a REST backend.  A request is a record in `net`: it is     *)
(* sent by a handler, answered by the backend (Backend), and its answer   *)
(* is handled by the continuation of the handler that awaited it           *)
(* (Handle...).  Requests are answered and handled in any order.           *)
(***************************************************************************)
EXTENDS Integers, Sequences, FiniteSets, TLC

\* ---------------------------------------------------------------- bounds
MaxJobs      == 2  \* jobs the backend holds
MaxActions   == 2  \* Spec: user actions after the page has loaded
MaxInFlight  == 2  \* Spec: requests in flight when the user acts
MaxFail      == 1  \* requests that fail
TableActions == 3  \* SpecTable: user actions after the table has loaded
TableInFlight == 2 \* SpecTable: requests in flight when the user acts
PanelActions == 4  \* SpecPanel: user actions, one at a time
SearchActions == 3 \* SpecSearch: user actions after the page has loaded
SearchInFlight == 2 \* SpecSearch: requests in flight when the user acts
SearchLiveActions == 3 \* SpecSearchLive: user actions, one at a time
MaxPolls     == 1  \* status reads a search answers with running = true

Jobs == 1..MaxJobs

\* ------------------------------------------------------------- constants
\* The status keys the detail panel's dropdown lists, in order.
STATUSES == <<"saved", "applied", "followed_up", "interview", "offer",
              "rejected", "declined", "withdrawn">>

\* The kanban columns' status keys, in order.
COLUMNS == <<"saved", "applied", "followed_up", "interview", "offer",
             "rejected", "declined">>

Range(s) == {s[i] : i \in 1..Len(s)}

\* Status values a backend record can carry: a key of the closed set, no
\* application status at all (null, written ""), or a string no view knows.
NoStatus == ""
UnknownStatus == "archived"
StatusValues == Range(STATUSES) \cup {NoStatus, UnknownStatus}

NotesValues == {"", "hello"}

NoJob == [id |-> 0, status |-> "", notes |-> "", updated_at |-> 0]

VARIABLES
  db,             \* backend: job id -> [status, notes, updated_at]
  clock,          \* backend: the time of its last mutation
  search,         \* backend: the search job: [ticks, added, found]
  net,            \* requests in flight, each with its answer once answered
  nextRid,        \* the next request's number
  _currentView,   \* app.js: the view navigate() last showed
  _jobs,          \* jobs.js: the table's cached job list
  _filters,       \* jobs.js: the table's filters: [status]
  tableDom,       \* jobs-tbody: "none", "loading", "empty" or "rows"
  rows,           \* the table's rendered rows
  boardDom,       \* kanban-board: "none", "loading" or "rendered"
  board,          \* kanban column -> its rendered cards
  dashDom,        \* dashboard: "none", "loading" or "rendered"
  activity,       \* dashboard: the rendered activity items
  panelOpen,      \* detail-panel is visible
  _currentJobId,  \* modal.js: the job openPanel() was last called for
  panelDom,       \* panel-content: "none", "loading", "error" or "job"
  panelGen,       \* how often panel-content has been replaced
  panelJob,       \* the job object the rendered panel's handlers close over
  panelStatus,    \* the status _renderPanel captured at render
  panelSel,       \* panel-status-sel's value
  panelNotes,     \* panel-notes' value
  notesHint,      \* notes-hint's text: "none", "auto" or "saved"
  toast,          \* the toast last shown
  searchOverlay,  \* app.js: search-overlay is visible
  dismissBtn,     \* app.js: btn-search-dismiss is displayed
  _searchPollTimer, \* app.js: the id setTimeout last returned, 0 for null
  timers,         \* the ids of the poll timers that are pending
  nextTimer,      \* the id the next setTimeout returns
  posts,          \* the Set-status requests issued so far: <<id, status, notes>>
  transitions,    \* the status changes the user has asked for so far
  lastOk,         \* the transition whose success was handled last
  left            \* what the bounds still allow: [act, fail, flight]

vars == <<db, clock, net, nextRid, _currentView, _jobs, _filters, tableDom,
          rows, boardDom, board, dashDom, activity, panelOpen, _currentJobId,
          panelDom, panelGen, panelJob, panelStatus, panelSel, panelNotes,
          notesHint, toast, searchOverlay, dismissBtn, _searchPollTimer,
          timers, nextTimer, search, posts, transitions, lastOk, left>>

backendVars == <<db, clock, search>>
searchVars  == <<searchOverlay, dismissBtn, _searchPollTimer, timers,
                 nextTimer>>
tableVars   == <<_jobs, _filters, tableDom, rows>>
kanbanVars  == <<boardDom, board>>
dashVars    == <<dashDom, activity>>
panelVars   == <<panelOpen, _currentJobId, panelDom, panelGen, panelJob,
                 panelStatus, panelSel, panelNotes, notesHint>>
ghostVars   == <<posts, transitions, lastOk>>

\* ------------------------------------------------------------ api.js
\* A raw answer of fetch(): kind "ok" (2xx, json in job/list), "http"
\* (non-2xx, the body in text) or "network" (fetch itself rejected).
NoState == [running |-> FALSE, added |-> 0, found |-> 0]
NoAnswer == [kind |-> "none", text |-> "", job |-> NoJob, list |-> <<>>,
             state |-> NoState]

\* apiFetch throwing `HTTP <status>` without reading the body.
ApiFetchMessageNoBody(ans) ==
  IF ans.kind = "network" THEN "Failed to fetch" ELSE "HTTP 500"

\* The message of the Error apiFetch throws for a failed answer.
ApiFetchMessage(ans) ==
  IF ans.kind = "network" THEN "Failed to fetch"
  ELSE IF ans.text # "" THEN ans.text
  ELSE "HTTP 500"

\* A request record as api.js sends it; st is "sent" until the backend answers.
Request(rid, op, id, status, notes, origin, idx, gen, known) ==
  [rid |-> rid, op |-> op, id |-> id, status |-> status, notes |-> notes,
   origin |-> origin, idx |-> idx, gen |-> gen, known |-> known,
   st |-> "sent", ans |-> NoAnswer]

\* api.setStatus(id, status, notes = ""): one POST /api/jobs/{id}/status.
ApiSetStatus(rid, id, status, notes, origin, gen, known) ==
  {Request(rid, "setStatus", id, status, notes, origin, 0, gen, known)}

ApiGetJob(rid, id, origin, idx) ==
  {Request(rid, "getJob", id, "", "", origin, idx, 0, "")}

\* api.getJobs(params): GET /api/jobs?status=...; the status filter
\* travels in the request's status.
ApiGetJobs(rid, params, origin) ==
  {Request(rid, "getJobs", 0, params.status, "", origin, 0, 0, "")}

ApiGetApplications(rid, origin) ==
  {Request(rid, "getApplications", 0, "", "", origin, 0, 0, "")}

\* api.updateNotes(id, notes): one PATCH /api/jobs/{id}/notes.
ApiUpdateNotes(rid, id, notes, gen) ==
  {Request(rid, "updateNotes", id, "", notes, "panel", 0, gen, "")}

\* api.startSearch(): one POST /api/search.
ApiStartSearch(rid) ==
  {Request(rid, "startSearch", 0, "", "", "btn-new-search", 0, 0, "")}

\* api.getSearchStatus(): one GET /api/search/status.
ApiGetSearchStatus(rid) ==
  {Request(rid, "getSearchStatus", 0, "", "", "_pollSearch", 0, 0, "")}

ApiGetConfig(rid, origin) ==
  {Request(rid, "getConfig", 0, "", "", origin, 0, 0, "")}

\* The user may act once more, within the bounds.
Budget == left.act > 0 /\ Cardinality(net) < left.flight

\* ------------------------------------------------------------ backend
\* The record GET /api/jobs, GET /api/jobs/{id} and POST .../status return
\* for job id (its app_status is written status).
JobOf(d, id) ==
  [id |-> id, status |-> d[id].status, notes |-> d[id].notes,
   updated_at |-> d[id].updated_at]

\* GET /api/jobs: every job, in the backend's order.
ListJobs(d) == [i \in 1..MaxJobs |-> JobOf(d, i)]

\* GET /api/jobs?status=s: the jobs of that status, all of them for "".
ListJobsWhere(d, s) ==
  IF s = "" THEN ListJobs(d)
  ELSE SelectSeq(ListJobs(d), LAMBDA j : j.status = s)

\* GET /api/applications: the jobs that have an application status.
ListApplications(d) == SelectSeq(ListJobs(d), LAMBDA j : j.status # NoStatus)

\* The answers of a request that fails: a 500 with a body, a 500 without
\* one, and a request that never reached the backend.
Failures ==
  {[kind |-> "http", text |-> "db locked", job |-> NoJob, list |-> <<>>,
    state |-> NoState],
   [kind |-> "http", text |-> "", job |-> NoJob, list |-> <<>>,
    state |-> NoState],
   [kind |-> "network", text |-> "", job |-> NoJob, list |-> <<>>,
    state |-> NoState]}

Ok(job, list) ==
  [kind |-> "ok", text |-> "", job |-> job, list |-> list, state |-> NoState]

Answered(r, ans) == [r EXCEPT !.st = "answered", !.ans = ans]

\* The backend fails request r: nothing is stored.
BackendFail(r) ==
  /\ r \in net /\ r.st = "sent"
  /\ left.fail > 0
  /\ left' = [left EXCEPT !.fail = @ - 1]
  /\ \E f \in Failures : net' = (net \ {r}) \cup {Answered(r, f)}
  /\ UNCHANGED <<db, clock, search>>

\* POST /api/jobs/{id}/status {status, notes}: stores the status and the
\* notes, stamps the record, and returns it.
BackendSetStatus(r) ==
  /\ r \in net /\ r.st = "sent" /\ r.op = "setStatus"
  /\ db' = [db EXCEPT ![r.id] = [status |-> r.status, notes |-> r.notes,
                                 updated_at |-> clock + 1]]
  /\ clock' = clock + 1
  /\ net' = (net \ {r}) \cup {Answered(r, Ok(JobOf(db', r.id), <<>>))}
  /\ UNCHANGED <<left, search>>

\* PATCH /api/jobs/{id}/notes {notes}: stores the notes, stamps the record,
\* and returns it.
BackendUpdateNotes(r) ==
  /\ r \in net /\ r.st = "sent" /\ r.op = "updateNotes"
  /\ db' = [db EXCEPT ![r.id] = [status |-> @.status, notes |-> r.notes,
                                 updated_at |-> clock + 1]]
  /\ clock' = clock + 1
  /\ net' = (net \ {r}) \cup {Answered(r, Ok(JobOf(db', r.id), <<>>))}
  /\ UNCHANGED <<left, search>>

\* The reads: GET /api/jobs/{id}, /api/jobs, /api/applications, /api/config.
BackendRead(r) ==
  /\ r \in net /\ r.st = "sent"
  /\ r.op \in {"getJob", "getJobs", "getApplications", "getDashboard",
               "getConfig"}
  /\ net' = (net \ {r}) \cup
       {Answered(r,
          CASE r.op = "getJob"          -> Ok(JobOf(db, r.id), <<>>)
            [] r.op = "getJobs"         ->
                 Ok(NoJob, ListJobsWhere(db, r.status))
            [] r.op = "getApplications" -> Ok(NoJob, ListApplications(db))
            [] r.op = "getDashboard"    -> Ok(NoJob, ListApplications(db))
            [] OTHER                    -> Ok(NoJob, <<>>))}
  /\ UNCHANGED <<db, clock, search, left>>

\* What a search can end with: <<added, found>>.
SearchResults == {<<1, 1>>, <<0, 1>>, <<0, 0>>}

OkState(state) ==
  [kind |-> "ok", text |-> "", job |-> NoJob, list |-> <<>>, state |-> state]

\* POST /api/search: starts the background search and acknowledges.  The
\* search is running for its next `ticks` status reads and then has ended.
BackendStartSearch(r) ==
  /\ r \in net /\ r.st = "sent" /\ r.op = "startSearch"
  /\ \E n \in 0..MaxPolls, res \in SearchResults :
       search' = [ticks |-> n, added |-> res[1], found |-> res[2]]
  /\ net' = (net \ {r}) \cup {Answered(r, Ok(NoJob, <<>>))}
  /\ UNCHANGED <<db, clock, left>>

\* GET /api/search/status: {running, progress, added, found}.
BackendSearchStatus(r) ==
  /\ r \in net /\ r.st = "sent" /\ r.op = "getSearchStatus"
  /\ net' = (net \ {r}) \cup
       {Answered(r, OkState(IF search.ticks > 0
                              THEN [running |-> TRUE, added |-> 0, found |-> 0]
                              ELSE [running |-> FALSE, added |-> search.added,
                                    found |-> search.found]))}
  /\ search' = [search EXCEPT !.ticks = IF @ > 0 THEN @ - 1 ELSE 0]
  /\ UNCHANGED <<db, clock, left>>

\* The backend while a search is on: reads, the two search endpoints, and
\* failures.
SearchBackend ==
  /\ \E r \in net : \/ BackendFail(r)
                     \/ BackendRead(r)
                     \/ BackendStartSearch(r)
                     \/ BackendSearchStatus(r)
  /\ UNCHANGED <<nextRid, _currentView, tableVars, kanbanVars, dashVars,
                 panelVars, toast, searchVars, ghostVars>>

Backend ==
  /\ \E r \in net : \/ BackendFail(r)
                     \/ BackendSetStatus(r)
                     \/ BackendUpdateNotes(r)
                     \/ BackendRead(r)
  /\ UNCHANGED <<nextRid, _currentView, tableVars, kanbanVars, dashVars,
                 panelVars, toast, searchVars, ghostVars>>

\* ------------------------------------------------------ shared lookups
\* app.js showToast(message, type): message is a prefix and a text.
Toast(type, prefix, msg) == [type |-> type, prefix |-> prefix, msg |-> msg]
NoToast == Toast("none", "", "")

\* The status -> label object of statusBadge and of both _statusLabel.
LABELS ==
  [s \in Range(STATUSES) |->
     CASE s = "saved"       -> "Saved"
       [] s = "applied"     -> "Applied"
       [] s = "followed_up" -> "Followed Up"
       [] s = "interview"   -> "Interview"
       [] s = "offer"       -> "Offer"
       [] s = "rejected"    -> "Rejected"
       [] s = "declined"    -> "Declined"
       [] s = "withdrawn"   -> "Withdrawn"]

\* Property names every object literal inherits from Object.prototype
\* (three of them); their values are functions or objects, not strings.
ObjectPrototypeKeys == {"constructor", "toString", "__proto__"}

\* The text a template literal makes of the inherited value.
InheritedText(k) ==
  CASE k = "constructor" -> "function Object() { [native code] }"
    [] k = "toString"    -> "function toString() { [native code] }"
    [] OTHER             -> "[object Object]"

\* { saved: "Saved", ... }[s]: the label of an own key, the value of an
\* inherited one, undefined (written "") for any other string.
LabelLookup(s) ==
  IF s \in DOMAIN LABELS THEN LABELS[s]
  ELSE IF s \in ObjectPrototypeKeys THEN InheritedText(s)
  ELSE ""

\* modal.js _statusLabel(s): { ... }[s] || s
_statusLabel(s) == IF LabelLookup(s) # "" THEN LabelLookup(s) ELSE s

\* kanban.js _statusLabel(s): { ... }[s] || s
_statusLabelKanban(s) == IF LabelLookup(s) # "" THEN LabelLookup(s) ELSE s

\* app.js statusBadge(status): the badge's label,
\* { ... }[status] || status || "Saved"
statusBadge(status) ==
  IF LabelLookup(status) # "" THEN LabelLookup(status)
  ELSE IF status # "" THEN status
  ELSE "Saved"

\* job.app_status || "saved"
OrSaved(status) == IF status = NoStatus THEN "saved" ELSE status

\* ------------------------------------------------------------ jobs.js
\* _nextStatuses without its case "offer".
_nextStatusesNoOffer(current) ==
  CASE current = "saved" ->
         <<<<"Apply", "applied">>, <<"Skip", "declined">>>>
    [] current = "applied" ->
         <<<<"Follow Up", "followed_up">>, <<"Interview", "interview">>,
           <<"Reject", "rejected">>>>
    [] current = "followed_up" ->
         <<<<"Interview", "interview">>, <<"Reject", "rejected">>>>
    [] current = "interview" ->
         <<<<"Offer!", "offer">>, <<"Reject", "rejected">>>>
    [] OTHER ->
         <<<<"Reopen", "saved">>>>

\* _nextStatuses whose default case keeps the status it was given.
_nextStatusesKeep(current) ==
  CASE current = "saved" ->
         <<<<"Apply", "applied">>, <<"Skip", "declined">>>>
    [] current = "applied" ->
         <<<<"Follow Up", "followed_up">>, <<"Interview", "interview">>,
           <<"Reject", "rejected">>>>
    [] current = "followed_up" ->
         <<<<"Interview", "interview">>, <<"Reject", "rejected">>>>
    [] current = "interview" ->
         <<<<"Offer!", "offer">>, <<"Reject", "rejected">>>>
    [] current = "offer" ->
         <<<<"Declined", "declined">>>>
    [] OTHER ->
         <<<<"Reopen", current>>>>

\* _nextStatuses(current): the quick actions as <<label, status>> (the css
\* class of the tuple is presentation).
_nextStatuses(current) ==
  CASE current = "saved" ->
         <<<<"Apply", "applied">>, <<"Skip", "declined">>>>
    [] current = "applied" ->
         <<<<"Follow Up", "followed_up">>, <<"Interview", "interview">>,
           <<"Reject", "rejected">>>>
    [] current = "followed_up" ->
         <<<<"Interview", "interview">>, <<"Reject", "rejected">>>>
    [] current = "interview" ->
         <<<<"Offer!", "offer">>, <<"Reject", "rejected">>>>
    [] current = "offer" ->
         <<<<"Declined", "declined">>>>
    [] OTHER ->
         <<<<"Reopen", "saved">>>>

\* _actionButtons(status, jobId): one button per quick action, its label and
\* its data-status.
_actionButtons(status) == _nextStatuses(status)

\* _jobRow(job): the row's data-id, the status its badge shows, its buttons.
_jobRow(job) ==
  [id |-> job.id, status |-> OrSaved(job.status),
   badge |-> statusBadge(OrSaved(job.status)),
   buttons |-> _actionButtons(OrSaved(job.status))]

\* _jobs.findIndex(j => j.id === jobId) throws a TypeError: it reaches a
\* hole of the array (written NoJob), whose j is undefined, before a match.
FindIndexThrows(list, jobId) ==
  \E i \in 1..Len(list) :
    list[i] = NoJob /\ \A k \in 1..(i - 1) : list[k].id # jobId

\* The message of that TypeError.
TypeErrorMessage == "Cannot read properties of undefined (reading 'id')"

\* _jobs.findIndex(j => j.id === jobId); 0 for -1.
FindIndex(list, jobId) ==
  IF \E i \in 1..Len(list) : list[i].id = jobId
  THEN CHOOSE i \in 1..Len(list) :
         /\ list[i].id = jobId
         /\ \A k \in 1..(i - 1) : list[k].id # jobId
  ELSE 0

\* Every row replaced by the row of job.
PatchRowAll(rs, job) == [i \in 1..Len(rs) |-> _jobRow(job)]

\* The row left as it is.
PatchRowNone(rs, job) == rs

\* row.outerHTML = _jobRow(job) on document.querySelector(`tr[data-id=..]`):
\* the first row with that id is replaced, if there is one.
PatchRow(rs, job) ==
  IF FindIndex(rs, job.id) = 0 THEN rs
  ELSE [rs EXCEPT ![FindIndex(rs, job.id)] = _jobRow(job)]

\* _renderTable()'s tbody for the cached list.
RenderRows(list) == [i \in 1..Len(list) |-> _jobRow(list[i])]
RenderDom(list) == IF Len(list) = 0 THEN "empty" ELSE "rows"

\* ---------------------------------------------------------- kanban.js
\* _cardHtml(app, currentStatus): the card's data-id and data-status, and
\* the statuses its move menu lists.
_cardHtml(app, currentStatus) ==
  [id |-> app.id, status |-> currentStatus,
   menu |-> SelectSeq(COLUMNS, LAMBDA c : c # currentStatus)]

\* byStatus[col.status] of _renderBoard(apps): the apps whose status is the
\* column's, in the order of apps.
ByStatus(apps, c) == SelectSeq(apps, LAMBDA a : a.status = c)

\* _renderBoard(apps): each column's cards.
_renderBoard(apps) ==
  [c \in Range(COLUMNS) |->
     [i \in 1..Len(ByStatus(apps, c)) |-> _cardHtml(ByStatus(apps, c)[i], c)]]

\* _renderBoard(apps) throws a TypeError: byStatus[app.status] is an
\* inherited property of the object, which has no push.
RenderBoardThrows(apps) ==
  \E i \in 1..Len(apps) : apps[i].status \in ObjectPrototypeKeys

\* The columns renderKanban() draws before its fetch is answered.
SkeletonBoard == [c \in Range(COLUMNS) |-> <<>>]

\* A column whose placeholder is shown only when the whole board is empty.
_columnHtmlAllEmpty(b, c) ==
  [count |-> Len(b[c]),
   body |-> IF \A d \in DOMAIN b : Len(b[d]) = 0 THEN "No jobs here"
            ELSE IF Len(b[c]) = 0 THEN "" ELSE "cards"]

\* What _renderBoard puts into column c of board b: the text of
\* col-count-c and the content of col-c, its placeholder or its cards.
_columnHtml(b, c) ==
  [count |-> Len(b[c]),
   body |-> IF Len(b[c]) = 0 THEN "No jobs here" ELSE "cards"]

\* Column c on screen: as renderKanban drew it, or as _renderBoard did.
ColumnDom(dom, b, c) ==
  IF dom = "rendered" THEN _columnHtml(b, c)
  ELSE [count |-> 0, body |-> "skeleton"]

\* ------------------------------------------------------- dashboard.js
\* _renderActivity(apps): the first ten, each with the label of its badge.
_renderActivity(apps) ==
  [i \in 1..(IF Len(apps) < 10 THEN Len(apps) ELSE 10) |->
     [id |-> apps[i].id, status |-> apps[i].status,
      badge |-> statusBadge(apps[i].status)]]

\* ------------------------------------------------------------ modal.js
\* The value panel-status-sel shows for a job of this status: the option
\* marked selected, or the first option when none is.
SelectedValue(status) ==
  IF status \in Range(STATUSES) THEN status ELSE STATUSES[1]

\* ------------------------------------------------------------- sending
\* The Set-status requests among `new`, in the order sent.
RECURSIVE PostsOf(_)
PostsOf(new) ==
  LET S == {q \in new : q.op = "setStatus"} IN
  IF S = {} THEN <<>>
  ELSE LET q == CHOOSE x \in S : \A y \in S : x.rid <= y.rid
       IN <<<<q.id, q.status, q.notes>>>> \o PostsOf(S \ {q})

\* The handler of `done` (if any) ends or goes on, and sends `new`.
Send(done, new) ==
  /\ net' = (net \ done) \cup new
  /\ nextRid' = nextRid + Cardinality(new)
  /\ posts' = posts \o PostsOf(new)
  /\ left' = (IF done = {} THEN [left EXCEPT !.act = @ - 1] ELSE left)

Answer(r) == r \in net /\ r.st = "answered"
Succeeded(r) == r.ans.kind = "ok"

\* ------------------------------------------------------------- app.js
Views == {"dashboard", "jobs", "pipeline"}

\* What view.render() sends first: renderDashboard's Promise.all (one
\* request here), renderJobs' getConfig, renderKanban's getApplications.
RenderRequest(rid, v) ==
  CASE v = "dashboard" -> {Request(rid, "getDashboard", 0, "", "",
                                   "renderDashboard", 0, 0, "")}
    [] v = "jobs"      -> ApiGetConfig(rid, "renderJobs")
    [] v = "pipeline"  -> ApiGetApplications(rid, "renderKanban")

\* navigate(hash): shows the view and renders it anew.
navigate(v) ==
  /\ _currentView' = v
  /\ Send({}, RenderRequest(nextRid, v))
  /\ IF v = "jobs"
       THEN tableDom' = "loading" /\ rows' = <<>>
       ELSE UNCHANGED <<tableDom, rows>>
  /\ IF v = "pipeline"
       THEN boardDom' = "loading" /\ board' = SkeletonBoard
       ELSE UNCHANGED <<boardDom, board>>
  /\ IF v = "dashboard"
       THEN dashDom' = "loading" /\ activity' = <<>>
       ELSE UNCHANGED <<dashDom, activity>>
  /\ UNCHANGED <<backendVars, _jobs, _filters, panelVars, toast, transitions,
                 lastOk>>

\* A hashchange whose navigate() also did clearTimeout(_searchPollTimer).
NavigateClearsTimer(v) ==
  /\ v \in Views
  /\ Budget
  /\ navigate(v)
  /\ timers' = timers \ {_searchPollTimer}
  /\ UNCHANGED <<searchOverlay, dismissBtn, _searchPollTimer, nextTimer>>

\* The hashchange listener: navigate(location.hash).
Navigate(v) ==
  /\ v \in Views
  /\ Budget
  /\ navigate(v)
  /\ UNCHANGED searchVars

\* ----------------------------------------------- app.js, live search
\* A click on btn-new-search, up to its await.  The handler has no guard:
\* it runs on every click, and the button keeps the focus after a click,
\* so that Enter or Space clicks it again under the overlay.
NewSearchClick ==
  /\ Budget
  /\ searchOverlay' = TRUE
  /\ dismissBtn' = FALSE
  /\ Send({}, ApiStartSearch(nextRid))
  /\ UNCHANGED <<backendVars, _searchPollTimer, timers, nextTimer,
                 _currentView, tableVars, kanbanVars, dashVars, panelVars,
                 toast, transitions, lastOk>>

\* _pollSearch() calling setTimeout twice.
_pollSearchTwice ==
  /\ _searchPollTimer' = nextTimer + 1
  /\ timers' = timers \cup {nextTimer, nextTimer + 1}
  /\ nextTimer' = nextTimer + 2

\* _pollSearch(): one setTimeout, its id kept in _searchPollTimer.
_pollSearch ==
  /\ _searchPollTimer' = nextTimer
  /\ timers' = timers \cup {nextTimer}
  /\ nextTimer' = nextTimer + 1

\* The click handler after its await: the poll loop starts, or the
\* failure is shown with the dismiss button.
HandleStartSearch(r) ==
  /\ Answer(r) /\ r.op = "startSearch"
  /\ IF Succeeded(r)
       THEN _pollSearch /\ UNCHANGED dismissBtn
       ELSE /\ dismissBtn' = TRUE
            /\ UNCHANGED <<_searchPollTimer, timers, nextTimer>>
  /\ Send({r}, {})
  /\ UNCHANGED <<backendVars, searchOverlay, _currentView, tableVars,
                 kanbanVars, dashVars, panelVars, toast, transitions, lastOk>>

\* Poll timer t fires, 2000 ms after it was set: the callback up to its
\* await.
PollTimerFires(t) ==
  /\ t \in timers
  /\ timers' = timers \ {t}
  /\ net' = net \cup ApiGetSearchStatus(nextRid)
  /\ nextRid' = nextRid + 1
  /\ UNCHANGED <<backendVars, searchOverlay, dismissBtn, _searchPollTimer,
                 nextTimer, _currentView, tableVars, kanbanVars, dashVars,
                 panelVars, toast, ghostVars, left>>

\* The toast of a search that has ended, if any.
SearchToast(state) ==
  IF state.added > 0 THEN Toast("success", "Search complete", "new jobs added")
  ELSE IF state.found > 0 THEN Toast("info", "Search complete", "no new jobs")
  ELSE toast

\* The timer callback after its await: polls on while the search is
\* running, shows the dismiss button once it is not, and polls on after
\* a failure.
HandleSearchStatus(r) ==
  /\ Answer(r) /\ r.op = "getSearchStatus"
  /\ IF Succeeded(r) /\ ~r.ans.state.running
       THEN /\ dismissBtn' = TRUE
            /\ toast' = SearchToast(r.ans.state)
            /\ Send({r}, ApiGetJobs(nextRid, [status |-> ""], "_pollSearch"))
            /\ UNCHANGED <<_searchPollTimer, timers, nextTimer>>
       ELSE /\ _pollSearch
            /\ Send({r}, {})
            /\ UNCHANGED <<dismissBtn, toast>>
  /\ UNCHANGED <<backendVars, searchOverlay, _currentView, tableVars,
                 kanbanVars, dashVars, panelVars, transitions, lastOk>>

\* The callback after its second await: the list is not used, a failure is
\* swallowed.
HandleSearchJobs(r) ==
  /\ Answer(r) /\ r.op = "getJobs" /\ r.origin = "_pollSearch"
  /\ Send({r}, {})
  /\ UNCHANGED <<backendVars, searchVars, _currentView, tableVars, kanbanVars,
                 dashVars, panelVars, toast, transitions, lastOk>>

\* clearTimeout(id): the timer is pending no more, if it was.
ClearTimeout(ts, id) == ts \ {id}

\* A click on btn-search-dismiss, which is displayed in the overlay: the
\* overlay is hidden, the timer last set is cleared, the view rendered anew.
DismissClick ==
  /\ searchOverlay /\ dismissBtn
  /\ Budget
  /\ searchOverlay' = FALSE
  /\ timers' = ClearTimeout(timers, _searchPollTimer)
  /\ navigate(_currentView)
  /\ UNCHANGED <<dismissBtn, _searchPollTimer, nextTimer>>

\* ------------------------------------------------- modal.js, actions
\* openPanel(jobId): shows the panel with its spinner and fetches the job.
\* The elements of the panel rendered before are gone with its content.
openPanel(jobId) ==
  /\ Budget
  /\ _currentJobId' = jobId
  /\ panelOpen' = TRUE
  /\ panelDom' = "loading"
  /\ panelGen' = panelGen + 1
  /\ panelJob' = NoJob /\ panelStatus' = "" /\ panelSel' = "" /\ panelNotes' = ""
  /\ notesHint' = "none"
  /\ Send({}, ApiGetJob(nextRid, jobId, "openPanel", 0))
  /\ UNCHANGED <<backendVars, searchVars, _currentView, tableVars, kanbanVars, dashVars,
                 toast, transitions, lastOk>>

\* openPanel after its await: _renderPanel(job), or the failure text.
HandleOpenPanel(r) ==
  /\ Answer(r) /\ r.op = "getJob" /\ r.origin = "openPanel"
  /\ panelGen' = panelGen + 1
  /\ IF Succeeded(r)
       THEN /\ panelDom' = "job"
            /\ panelJob' = r.ans.job
            /\ panelStatus' = OrSaved(r.ans.job.status)
            /\ panelSel' = SelectedValue(OrSaved(r.ans.job.status))
            /\ panelNotes' = r.ans.job.notes
            /\ notesHint' = "auto"
       ELSE /\ panelDom' = "error"
            /\ panelJob' = NoJob /\ panelStatus' = "" /\ panelSel' = ""
            /\ panelNotes' = "" /\ notesHint' = "none"
  /\ Send({r}, {})
  /\ UNCHANGED <<backendVars, searchVars, _currentView, tableVars, kanbanVars, dashVars,
                 panelOpen, _currentJobId, toast, transitions, lastOk>>

\* closePanel(): Escape, the overlay, or the panel's close button.
closePanel ==
  /\ panelOpen
  /\ panelOpen' = FALSE
  /\ _currentJobId' = 0
  /\ UNCHANGED <<backendVars, searchVars, net, nextRid, _currentView, tableVars,
                 kanbanVars, dashVars, panelDom, panelGen, panelJob,
                 panelStatus, panelSel, panelNotes, notesHint, toast,
                 ghostVars, left>>

\* The user picks another option of panel-status-sel: its change handler
\* up to the await.
PanelStatusChange(newStatus) ==
  /\ panelOpen /\ panelDom = "job"
  /\ newStatus \in Range(STATUSES) /\ newStatus # panelSel
  /\ Budget
  /\ panelSel' = newStatus
  /\ transitions' = Append(transitions, <<panelJob.id, newStatus, panelNotes>>)
  /\ Send({}, ApiSetStatus(nextRid, panelJob.id, newStatus, panelNotes,
                           "panel", panelGen, panelJob.status))
  /\ UNCHANGED <<backendVars, searchVars, _currentView, tableVars, kanbanVars, dashVars,
                 panelOpen, _currentJobId, panelDom, panelGen, panelJob,
                 panelStatus, panelNotes, notesHint, toast, lastOk>>

\* refreshJobRow(jobId) up to its await: nothing when the job is not
\* cached, nor when findIndex throws (its callers do not await it).
refreshJobRow(rid, jobId) ==
  IF FindIndexThrows(_jobs, jobId) \/ FindIndex(_jobs, jobId) = 0 THEN {}
  ELSE ApiGetJob(rid, jobId, "refreshJobRow", FindIndex(_jobs, jobId))

\* The job object of the panel after job.app_status = newStatus.
PanelJobAfter(job, r) == [job EXCEPT !.status = r.status]

\* The value of the dropdown after the catch block's revert.
PanelRevert == panelStatus

\* The change handler after its await.  Its job and its select are those of
\* the panel it was bound in (gen); a panel rendered since has its own.
HandlePanelStatus(r) ==
  /\ Answer(r) /\ r.op = "setStatus" /\ r.origin = "panel"
  /\ IF Succeeded(r)
       THEN /\ panelJob' = IF r.gen = panelGen THEN PanelJobAfter(panelJob, r)
                           ELSE panelJob
            /\ toast' = Toast("success", "Status updated to ",
                              _statusLabel(r.status))
            /\ Send({r}, refreshJobRow(nextRid, r.id))
            /\ lastOk' = [id |-> r.id, status |-> r.status]
            /\ UNCHANGED panelSel
       ELSE /\ toast' = Toast("error", "Failed to update status: ",
                              ApiFetchMessage(r.ans))
            /\ panelSel' = IF r.gen = panelGen THEN PanelRevert ELSE panelSel
            /\ Send({r}, {})
            /\ UNCHANGED <<panelJob, lastOk>>
  /\ UNCHANGED <<backendVars, searchVars, _currentView, tableVars, kanbanVars, dashVars,
                 panelOpen, _currentJobId, panelDom, panelGen, panelStatus,
                 panelNotes, notesHint, transitions>>

\* The blur handler's catch block putting the saved notes back.
NotesReverted(typed, saved) == saved

\* The text of panel-notes after the catch block of its blur handler.
NotesAfterFailure(typed, saved) == typed

\* panel-notes loses focus holding text: its blur handler up to the await.
NotesBlur(text) ==
  /\ panelOpen /\ panelDom = "job"
  /\ text \in NotesValues
  /\ Budget
  /\ panelNotes' = text
  /\ Send({}, ApiUpdateNotes(nextRid, panelJob.id, text, panelGen))
  /\ UNCHANGED <<backendVars, searchVars, _currentView, tableVars, kanbanVars, dashVars,
                 panelOpen, _currentJobId, panelDom, panelGen, panelJob,
                 panelStatus, panelSel, notesHint, toast, transitions,
                 lastOk>>

\* The blur handler after its await: the hint of the panel on screen says
\* saved and the row is refreshed, or the failure is toasted.
HandleUpdateNotes(r) ==
  /\ Answer(r) /\ r.op = "updateNotes"
  /\ IF Succeeded(r)
       THEN /\ notesHint' = (IF panelDom = "job" THEN "saved" ELSE notesHint)
            /\ Send({r}, refreshJobRow(nextRid, r.id))
            /\ UNCHANGED <<toast, panelNotes>>
       ELSE /\ toast' = Toast("error", "Failed to save notes", "")
            /\ panelNotes' = (IF r.gen = panelGen
                                THEN NotesAfterFailure(panelNotes,
                                                       panelJob.notes)
                                ELSE panelNotes)
            /\ Send({r}, {})
            /\ UNCHANGED notesHint
  /\ UNCHANGED <<backendVars, searchVars, _currentView, tableVars, kanbanVars, dashVars,
                 panelOpen, _currentJobId, panelDom, panelGen, panelJob,
                 panelStatus, panelSel, transitions, lastOk>>

\* The timer of the saved hint, 2000 ms later: the hint is as it was.
NotesHintTimeout ==
  /\ notesHint = "saved"
  /\ notesHint' = "auto"
  /\ UNCHANGED <<backendVars, searchVars, net, nextRid, _currentView, tableVars,
                 kanbanVars, dashVars, panelOpen, _currentJobId, panelDom,
                 panelGen, panelJob, panelStatus, panelSel, panelNotes,
                 toast, ghostVars, left>>

\* _jobs[idx] = job for the index refreshJobRow found before its await; an
\* index past the end leaves holes (NoJob) before it.
AssignAt(list, idx, job) ==
  [i \in 1..(IF idx > Len(list) THEN idx ELSE Len(list)) |->
     IF i = idx THEN job ELSE IF i <= Len(list) THEN list[i] ELSE NoJob]

\* refreshJobRow after its await; a failure is swallowed.
HandleRefreshJobRow(r) ==
  /\ Answer(r) /\ r.op = "getJob" /\ r.origin = "refreshJobRow"
  /\ IF Succeeded(r)
       THEN /\ _jobs' = AssignAt(_jobs, r.idx, r.ans.job)
            /\ rows' = PatchRow(rows, r.ans.job)
       ELSE UNCHANGED <<_jobs, rows>>
  /\ Send({r}, {})
  /\ UNCHANGED <<backendVars, searchVars, _currentView, _filters, tableDom, kanbanVars,
                 dashVars, panelVars, toast, transitions, lastOk>>

\* -------------------------------------------------- jobs.js, actions
\* renderJobs after its getConfig await: the failure is swallowed, and
\* _loadJobs() sends the list request either way.
HandleConfig(r) ==
  /\ Answer(r) /\ r.op = "getConfig" /\ r.origin = "renderJobs"
  /\ Send({r}, ApiGetJobs(nextRid, _filters, "_loadJobs"))
  /\ UNCHANGED <<backendVars, searchVars, _currentView, tableVars, kanbanVars, dashVars,
                 panelVars, toast, transitions, lastOk>>

\* _loadJobs after its await: the cache is replaced and the table rendered,
\* or the failure is toasted.
HandleJobs(r) ==
  /\ Answer(r) /\ r.op = "getJobs" /\ r.origin = "_loadJobs"
  /\ IF Succeeded(r)
       THEN /\ _jobs' = r.ans.list
            /\ rows' = RenderRows(r.ans.list)
            /\ tableDom' = RenderDom(r.ans.list)
            /\ UNCHANGED toast
       ELSE /\ toast' = Toast("error", "Failed to load jobs: ",
                              ApiFetchMessage(r.ans))
            /\ UNCHANGED <<_jobs, rows, tableDom>>
  /\ Send({r}, {})
  /\ UNCHANGED <<backendVars, searchVars, _currentView, _filters, kanbanVars, dashVars,
                 panelVars, transitions, lastOk>>

\* The views under the overlay take no clicks while the panel is open.
ViewClickable(v) == _currentView = v /\ ~panelOpen

\* The options of filter-status chosen here: all statuses, and two of the
\* eight status options.
FilterStatuses == {"", "saved", "applied"}

\* The user picks another option of filter-status: its change handler and
\* _loadJobs() up to the await.
FilterStatusChange(s) ==
  /\ ViewClickable("jobs")
  /\ s \in FilterStatuses /\ s # _filters.status
  /\ Budget
  /\ _filters' = [status |-> s]
  /\ Send({}, ApiGetJobs(nextRid, _filters', "_loadJobs"))
  /\ UNCHANGED <<backendVars, searchVars, _currentView, _jobs, tableDom, rows, kanbanVars,
                 dashVars, panelVars, toast, transitions, lastOk>>

\* A click on the body of row i: openPanel(row.dataset.id).
RowClick(i) ==
  /\ ViewClickable("jobs") /\ tableDom = "rows" /\ i \in 1..Len(rows)
  /\ openPanel(rows[i].id)

\* _quickAction calling api.setStatus twice.
_quickActionTwice(rid, jobId, status, shown) ==
  ApiSetStatus(rid, jobId, status, "", "table", 0, shown)
    \cup ApiSetStatus(rid + 1, jobId, status, "", "table", 0, shown)

\* _quickAction(jobId, status) up to its await.
_quickAction(rid, jobId, status, shown) ==
  ApiSetStatus(rid, jobId, status, "", "table", 0, shown)

\* A click on button b of row i: the btn-quick-action handler.
QuickActionClick(i, b) ==
  /\ ViewClickable("jobs") /\ tableDom = "rows" /\ i \in 1..Len(rows)
  /\ b \in 1..Len(rows[i].buttons)
  /\ Budget
  /\ transitions' = Append(transitions,
                           <<rows[i].id, rows[i].buttons[b][2], "">>)
  /\ Send({}, _quickAction(nextRid, rows[i].id, rows[i].buttons[b][2],
                           rows[i].status))
  /\ UNCHANGED <<backendVars, searchVars, _currentView, tableVars, kanbanVars, dashVars,
                 panelVars, toast, lastOk>>

\* The labels object of _quickAction's success toast.
QuickActionLabel(status) ==
  CASE status = "applied"     -> Toast("success", "", "Marked as Applied")
    [] status = "followed_up" -> Toast("success", "", "Followed Up!")
    [] status = "interview"   -> Toast("success", "", "Interview noted")
    [] status = "offer"       -> Toast("success", "", "Offer logged!")
    [] status = "rejected"    -> Toast("success", "", "Marked Rejected")
    [] status = "declined"    -> Toast("success", "", "Skipped")
    [] status = "saved"       -> Toast("success", "", "Restored to saved")
    [] OTHER                  -> Toast("success", "Status: ", status)

\* _quickAction keeping a cached record that is newer than the answer's.
QuickActionCacheNewest(list, r) ==
  IF FindIndex(list, r.id) = 0 THEN list
  ELSE IF list[FindIndex(list, r.id)].updated_at > r.ans.job.updated_at
    THEN list
  ELSE [list EXCEPT ![FindIndex(list, r.id)] = r.ans.job]

\* _jobs after `if (idx !== -1) _jobs[idx] = res.job`.
QuickActionCache(list, r) ==
  IF FindIndex(list, r.id) = 0 THEN list
  ELSE [list EXCEPT ![FindIndex(list, r.id)] = r.ans.job]

\* _quickAction after its await; a TypeError of findIndex is caught like a
\* failed request.
HandleQuickAction(r) ==
  /\ Answer(r) /\ r.op = "setStatus" /\ r.origin = "table"
  /\ IF Succeeded(r) /\ ~FindIndexThrows(_jobs, r.id)
       THEN /\ _jobs' = QuickActionCache(_jobs, r)
            /\ rows' = PatchRow(rows, r.ans.job)
            /\ toast' = QuickActionLabel(r.status)
            /\ lastOk' = [id |-> r.id, status |-> r.status]
       ELSE /\ toast' = Toast("error", "Update failed: ",
                              IF Succeeded(r) THEN TypeErrorMessage
                              ELSE ApiFetchMessage(r.ans))
            /\ UNCHANGED <<_jobs, rows, lastOk>>
  /\ Send({r}, {})
  /\ UNCHANGED <<backendVars, searchVars, _currentView, _filters, tableDom, kanbanVars,
                 dashVars, panelVars, transitions>>

\* ------------------------------------------------ kanban.js, actions
\* renderKanban after its await, and the move handler after its second.
HandleApplications(r) ==
  /\ Answer(r) /\ r.op = "getApplications"
  /\ IF Succeeded(r) /\ ~RenderBoardThrows(r.ans.list)
       THEN /\ board' = _renderBoard(r.ans.list)
            /\ boardDom' = "rendered"
            /\ UNCHANGED toast
       ELSE /\ toast' = Toast("error",
                              IF r.origin = "renderKanban"
                                THEN "Failed to load pipeline: "
                                ELSE "Move failed: ",
                              IF Succeeded(r)
                                THEN "byStatus[app.status].push is not a function"
                                ELSE ApiFetchMessage(r.ans))
            /\ UNCHANGED <<board, boardDom>>
  /\ Send({r}, {})
  /\ UNCHANGED <<backendVars, searchVars, _currentView, tableVars, dashVars, panelVars,
                 transitions, lastOk>>

\* A click on card i of column c: openPanel(card.dataset.id).
CardClick(c, i) ==
  /\ ViewClickable("pipeline") /\ boardDom = "rendered"
  /\ c \in Range(COLUMNS) /\ i \in 1..Len(board[c])
  /\ openPanel(board[c][i].id)

\* A click on item k of the move menu of card i of column c: the
\* kanban-move-item handler up to its first await.
KanbanMoveClick(c, i, k) ==
  /\ ViewClickable("pipeline") /\ boardDom = "rendered"
  /\ c \in Range(COLUMNS) /\ i \in 1..Len(board[c])
  /\ k \in 1..Len(board[c][i].menu)
  /\ Budget
  /\ transitions' = Append(transitions,
                           <<board[c][i].id, board[c][i].menu[k], "">>)
  /\ Send({}, ApiSetStatus(nextRid, board[c][i].id, board[c][i].menu[k], "",
                           "kanban", 0, board[c][i].status))
  /\ UNCHANGED <<backendVars, searchVars, _currentView, tableVars, kanbanVars, dashVars,
                 panelVars, toast, lastOk>>

\* The move handler after its first await: the toast and the board reload,
\* or the failure toast.
HandleKanbanMove(r) ==
  /\ Answer(r) /\ r.op = "setStatus" /\ r.origin = "kanban"
  /\ IF Succeeded(r)
       THEN /\ toast' = Toast("success", "Moved to ",
                              _statusLabelKanban(r.status))
            /\ Send({r}, ApiGetApplications(nextRid, "kanbanMove"))
            /\ lastOk' = [id |-> r.id, status |-> r.status]
       ELSE /\ toast' = Toast("error", "Move failed: ",
                              ApiFetchMessage(r.ans))
            /\ Send({r}, {})
            /\ UNCHANGED lastOk
  /\ UNCHANGED <<backendVars, searchVars, _currentView, tableVars, kanbanVars, dashVars,
                 panelVars, transitions>>

\* --------------------------------------------- dashboard.js, actions
\* renderDashboard after its await.
HandleDashboard(r) ==
  /\ Answer(r) /\ r.op = "getDashboard"
  /\ IF Succeeded(r)
       THEN /\ activity' = _renderActivity(r.ans.list)
            /\ dashDom' = "rendered"
            /\ UNCHANGED toast
       ELSE /\ toast' = Toast("error", "Failed to load dashboard: ",
                              ApiFetchMessage(r.ans))
            /\ UNCHANGED <<activity, dashDom>>
  /\ Send({r}, {})
  /\ UNCHANGED <<backendVars, searchVars, _currentView, tableVars, kanbanVars, panelVars,
                 transitions, lastOk>>

\* A click on activity item i: openPanel(el.dataset.id).
ActivityClick(i) ==
  /\ ViewClickable("dashboard") /\ dashDom = "rendered"
  /\ i \in 1..Len(activity)
  /\ openPanel(activity[i].id)

\* ------------------------------------------------------ specification
\* The page has loaded with the backend holding d: app.js has called
\* navigate(location.hash || "#dashboard"), whose view has sent its first
\* request.  The bounds allow what `allowed` says.
Loaded(d, v, allowed) ==
  /\ db = d
  /\ clock = 0
  /\ _currentView = v
  /\ net = RenderRequest(1, v)
  /\ tableDom = (IF v = "jobs" THEN "loading" ELSE "none")
  /\ boardDom = (IF v = "pipeline" THEN "loading" ELSE "none")
  /\ dashDom = (IF v = "dashboard" THEN "loading" ELSE "none")
  /\ nextRid = 2
  /\ _jobs = <<>> /\ rows = <<>>
  /\ _filters = [status |-> ""]
  /\ board = SkeletonBoard
  /\ activity = <<>>
  /\ panelOpen = FALSE /\ _currentJobId = 0
  /\ panelDom = "none" /\ panelGen = 0
  /\ panelJob = NoJob /\ panelStatus = "" /\ panelSel = "" /\ panelNotes = ""
  /\ notesHint = "none"
  /\ toast = NoToast
  /\ search = [ticks |-> 0, added |-> 0, found |-> 0]
  /\ searchOverlay = FALSE /\ dismissBtn = FALSE
  /\ _searchPollTimer = 0 /\ timers = {} /\ nextTimer = 1
  /\ posts = <<>> /\ transitions = <<>>
  /\ lastOk = [id |-> 0, status |-> ""]
  /\ left = allowed

\* The records the backend holds at first: job 1 with any of these
\* statuses and a note, every other job applied for and without notes.
InitStatuses == {NoStatus, "saved", "offer", "withdrawn", UnknownStatus}

InitDb(s) ==
  [id \in Jobs |->
     IF id = 1 THEN [status |-> s, notes |-> "hello", updated_at |-> 0]
     ELSE [status |-> "applied", notes |-> "", updated_at |-> 0]]

Init ==
  \E s \in InitStatuses, v \in Views :
    Loaded(InitDb(s), v,
           [act |-> MaxActions, fail |-> MaxFail, flight |-> MaxInFlight])

Handle ==
  \E r \in net :
    \/ HandleConfig(r)
    \/ HandleJobs(r)
    \/ HandleQuickAction(r)
    \/ HandleOpenPanel(r)
    \/ HandlePanelStatus(r)
    \/ HandleUpdateNotes(r)
    \/ HandleRefreshJobRow(r)
    \/ HandleApplications(r)
    \/ HandleKanbanMove(r)
    \/ HandleDashboard(r)

User ==
  \/ \E v \in Views : Navigate(v)
  \/ \E s \in FilterStatuses : FilterStatusChange(s)
  \/ \E i \in 1..MaxJobs : RowClick(i)
  \/ \E i \in 1..MaxJobs, b \in 1..3 : QuickActionClick(i, b)
  \/ \E c \in Range(COLUMNS), i \in 1..MaxJobs : CardClick(c, i)
  \/ \E c \in Range(COLUMNS), i \in 1..MaxJobs, k \in 1..Len(COLUMNS) :
       KanbanMoveClick(c, i, k)
  \/ \E i \in 1..MaxJobs : ActivityClick(i)
  \/ closePanel
  \/ \E s \in Range(STATUSES) : PanelStatusChange(s)
  \/ \E text \in NotesValues : NotesBlur(text)
  \/ NotesHintTimeout

Next == Backend \/ Handle \/ User

Spec == Init /\ [][Next]_vars

\* The detail panel alone: the dashboard or the board has loaded, and the
\* user opens the panel from the activity list or from a card and changes
\* the status in it, one action at a time.
InitPanel ==
  \E v \in {"dashboard", "pipeline"} :
    Loaded(InitDb("saved"), v,
           [act |-> PanelActions, fail |-> MaxFail, flight |-> 1])

NextPanel ==
  \/ Backend
  \/ \E r \in net :
       \/ HandleDashboard(r)
       \/ HandleApplications(r)
       \/ HandleOpenPanel(r)
       \/ HandlePanelStatus(r)
       \/ HandleUpdateNotes(r)
  \/ \E i \in 1..MaxJobs : ActivityClick(i)
  \/ \E c \in Range(COLUMNS), i \in 1..MaxJobs : CardClick(c, i)
  \/ closePanel
  \/ \E s \in Range(STATUSES) : PanelStatusChange(s)
  \/ \E text \in NotesValues : NotesBlur(text)
  \/ NotesHintTimeout

SpecPanel == InitPanel /\ [][NextPanel]_vars

\* The labels: the page has loaded with job 1 in any status of the closed
\* set, in none, or in one no view knows, and the user acts as in Spec, one
\* request at a time.
LabelInputs == StatusValues \cup ObjectPrototypeKeys

InitLabels ==
  \E s \in LabelInputs, v \in Views :
    Loaded(InitDb(s), v,
           [act |-> MaxActions, fail |-> MaxFail, flight |-> 1])

SpecLabels == InitLabels /\ [][Next]_vars

\* The table and the panel opened from it: the jobs view has loaded, and
\* the user works on its rows, its status filter and the panel of a row.
InitTable ==
  Loaded(InitDb("saved"), "jobs",
         [act |-> TableActions, fail |-> MaxFail, flight |-> TableInFlight])

NextTable ==
  \/ Backend
  \/ \E r \in net :
       \/ HandleConfig(r)
       \/ HandleJobs(r)
       \/ HandleQuickAction(r)
       \/ HandleOpenPanel(r)
       \/ HandlePanelStatus(r)
       \/ HandleUpdateNotes(r)
       \/ HandleRefreshJobRow(r)
  \/ \E s \in FilterStatuses : FilterStatusChange(s)
  \/ \E i \in 1..MaxJobs : RowClick(i)
  \/ \E i \in 1..MaxJobs, b \in 1..3 : QuickActionClick(i, b)
  \/ closePanel
  \/ \E s \in Range(STATUSES) : PanelStatusChange(s)
  \/ \E text \in NotesValues : NotesBlur(text)
  \/ NotesHintTimeout

SpecTable == InitTable /\ [][NextTable]_vars

\* The live search: a view has loaded, and the user starts searches,
\* dismisses the overlay and goes to other views while the poll loop runs.
InitSearch ==
  Loaded(InitDb("saved"), "dashboard",
         [act |-> SearchActions, fail |-> MaxFail, flight |-> SearchInFlight])

NextSearch ==
  \/ SearchBackend
  \/ \E r \in net :
       \/ HandleStartSearch(r)
       \/ HandleSearchStatus(r)
       \/ HandleSearchJobs(r)
       \/ HandleDashboard(r)
       \/ HandleConfig(r)
       \/ HandleJobs(r)
       \/ HandleApplications(r)
  \/ \E t \in timers : PollTimerFires(t)
  \/ NewSearchClick
  \/ DismissClick
  \/ \E v \in Views : Navigate(v)

SpecSearch == InitSearch /\ [][NextSearch]_vars

\* The live search under the browser's scheduling: the backend answers
\* every request, a continuation whose answer has come runs, and a timer
\* that is pending fires.
InitSearchLive ==
  Loaded(InitDb("saved"), "dashboard",
         [act |-> SearchLiveActions, fail |-> MaxFail, flight |-> 1])

SpecSearchLive ==
  /\ InitSearchLive
  /\ [][NextSearch]_vars
  /\ WF_vars(SearchBackend)
  /\ WF_vars(\E r \in net : \/ HandleStartSearch(r)
                            \/ HandleSearchStatus(r)
                            \/ HandleSearchJobs(r)
                            \/ HandleDashboard(r)
                            \/ HandleConfig(r)
                            \/ HandleJobs(r)
                            \/ HandleApplications(r))
  /\ WF_vars(\E t \in timers : PollTimerFires(t))

\* ================================================================ claims
\* The closed set of statuses, as the specification lists it.
ClosedSet == {"saved", "applied", "followed_up", "interview", "offer",
              "rejected", "declined", "withdrawn"}

\* A request whose answer the step handles.
Handled(r) == r \in net /\ r.st = "answered" /\ r \notin net'

\* ------------------------------------------------------------------- C1
\* No request has failed so far.
NoFailureYet == left.fail = MaxFail

\* C1: once a transition has succeeded, no request has failed and none is
\* in flight any more, the view on screen and the open panel show the new
\* status of the job wherever they show the job: its table row, its kanban
\* card, the panel's dropdown.
C1_EveryViewShowsTheNewStatus ==
  (net = {} /\ lastOk.id # 0 /\ NoFailureYet)
  => /\ (_currentView = "jobs" /\ tableDom = "rows")
          => \A i \in 1..Len(rows) :
               rows[i].id = lastOk.id => rows[i].status = lastOk.status
     /\ (_currentView = "pipeline" /\ boardDom = "rendered")
          => \A c \in DOMAIN board : \A i \in 1..Len(board[c]) :
               board[c][i].id = lastOk.id
                 => board[c][i].status = lastOk.status
     /\ (panelOpen /\ panelDom = "job" /\ panelJob.id = lastOk.id)
          => panelSel = lastOk.status

\* ------------------------------------------------------------------- C2
\* The table of suggested quick actions of the specification, section 4.1.
SuggestedTable(s) ==
  IF s = "saved" THEN <<<<"Apply", "applied">>, <<"Skip", "declined">>>>
  ELSE IF s = "applied"
    THEN <<<<"Follow Up", "followed_up">>, <<"Interview", "interview">>,
           <<"Reject", "rejected">>>>
  ELSE IF s = "followed_up"
    THEN <<<<"Interview", "interview">>, <<"Reject", "rejected">>>>
  ELSE IF s = "interview"
    THEN <<<<"Offer!", "offer">>, <<"Reject", "rejected">>>>
  ELSE IF s = "offer" THEN <<<<"Declined", "declined">>>>
  ELSE <<<<"Reopen", "saved">>>>

\* C2: for every status of the closed set and for an unknown status, the
\* quick actions computed from it are the row of the specification's table,
\* labels, targets and order; and every rendered row of the table view
\* carries exactly the quick actions of the table for the status it shows.
C2_QuickActionsAreTheTable ==
  /\ \A s \in ClosedSet \cup {UnknownStatus} :
       _actionButtons(s) = SuggestedTable(s)
  /\ \A i \in 1..Len(rows) : rows[i].buttons = SuggestedTable(rows[i].status)

\* A rendered table with a row of an unknown status (Reopen) beside a row
\* of an applied job (three actions).
C2_Witness ==
  /\ tableDom = "rows"
  /\ \E i \in 1..Len(rows) :
       rows[i].status = UnknownStatus /\ Len(rows[i].buttons) = 1
  /\ \E i \in 1..Len(rows) :
       rows[i].status = "applied" /\ Len(rows[i].buttons) = 3

\* ------------------------------------------------------------------- C3
\* C3: the step that handles a failed Set-status request of the rendered
\* panel's dropdown leaves the dropdown showing the status the panel's job
\* had immediately before that attempt, and shows an error toast.
C3_FailedPanelTransitionShowsPriorStatus ==
  [][\A r \in net :
       (Handled(r) /\ r.op = "setStatus" /\ r.origin = "panel"
          /\ r.gen = panelGen /\ ~Succeeded(r))
       => /\ panelSel' = SelectedValue(OrSaved(r.known))
          /\ toast'.type = "error"]_vars

\* ------------------------------------------------------------------- C4
\* C4: the step that handles the failed Set-status request of a table quick
\* action or of a kanban move leaves the table's cached list, its rendered
\* rows and the kanban board as they were, and shows an error toast whose
\* text is the error message: the response body when there is one.
C4_FailedTransitionChangesNothing ==
  [][\A r \in net :
       (Handled(r) /\ r.op = "setStatus" /\ r.origin \in {"table", "kanban"}
          /\ ~Succeeded(r))
       => /\ _jobs' = _jobs /\ rows' = rows /\ tableDom' = tableDom
          /\ board' = board /\ boardDom' = boardDom
          /\ toast'.type = "error"
          /\ toast'.msg # ""
          /\ (r.ans.text # "" => toast'.msg = r.ans.text)]_vars

\* The table shows its rows and the toast of a quick action that failed
\* with the body "db locked".
C4_Witness ==
  /\ tableDom = "rows"
  /\ toast = Toast("error", "Update failed: ", "db locked")

\* ------------------------------------------------------------------- C5
\* C5: no Set-status request is sent whose target is the status the view
\* that sends it holds for the job (the row's, the card's, the panel job's).
C5_NoRequestForTheCurrentStatus ==
  \A r \in net : r.op = "setStatus" => r.status # r.known

\* ------------------------------------------------------------------- C6
\* C6: the Set-status requests issued are, one for one and in order, the
\* status changes the user asked for, with the job, the status picked and
\* the notes (those of the panel's notes field, "" from the table and the
\* kanban) -- whether earlier requests succeeded or failed; and a
\* successful answer carries the job with the status asked for.
C6_OnePostPerTransition ==
  /\ posts = transitions
  /\ \A r \in net :
       (r.op = "setStatus" /\ r.st = "answered" /\ Succeeded(r))
       => r.ans.job.id = r.id /\ r.ans.job.status = r.status

\* Two status changes have been asked for, and one request has failed and
\* its failure has been handled.
C6_Witness ==
  /\ Len(transitions) = 2
  /\ left.fail = 0
  /\ net = {}
  /\ toast.type = "error"
  /\ toast.prefix \in {"Update failed: ", "Move failed: ",
                       "Failed to update status: "}

\* ------------------------------------------------------------------- C7
\* C7: the step that handles a successful Set-status answer leaves the
\* initiating view's copy of the job equal to the record of the answer: the
\* table's cache entry for a quick action, the rendered panel's job object
\* for the dropdown.
C7_CopyIsTheReturnedRecord ==
  [][\A r \in net :
       (Handled(r) /\ r.op = "setStatus" /\ Succeeded(r))
       => /\ (r.origin = "table" /\ FindIndex(_jobs, r.id) # 0)
               => _jobs'[FindIndex(_jobs, r.id)] = r.ans.job
          /\ (r.origin = "panel" /\ r.gen = panelGen)
               => panelJob' = r.ans.job]_vars

ColumnsOf(b, id) ==
  {c \in DOMAIN b : \E i \in 1..Len(b[c]) : b[c][i].id = id}

\* C9: the board rendered from an applications list holds every job whose
\* status is in the closed set in exactly one column, that of its status,
\* and every other job in none.
C9_EachJobInTheColumnOfItsStatus ==
  [][\A r \in net :
       (Handled(r) /\ r.op = "getApplications" /\ Succeeded(r))
       => \A k \in 1..Len(r.ans.list) :
            ColumnsOf(board', r.ans.list[k].id) =
              (IF r.ans.list[k].status \in ClosedSet
                 THEN {r.ans.list[k].status} ELSE {})]_vars

\* ------------------------------------------------------------------ C10
\* The options panel-status-sel lists.
PanelOptions == Range(STATUSES)

\* C10: every rendered card's move menu, and the dropdown of the rendered
\* panel, offer every status of the closed set other than the current one.
C10_AffordancesOfferEveryOtherStatus ==
  /\ \A c \in DOMAIN board : \A i \in 1..Len(board[c]) :
       ClosedSet \ {board[c][i].status} \subseteq Range(board[c][i].menu)
  /\ panelDom = "job" => ClosedSet \ {panelSel} \subseteq PanelOptions

\* ------------------------------------------------------------------ C11
\* C11: a Set-status request that has been sent stays in flight until its
\* own answer is handled, whatever else is sent for the same job; and the
\* step that handles a successful answer of a quick action for a job that
\* findIndex finds in the cache leaves the table's cached record of the job
\* equal to the record of that answer, so the answer handled last is the one
\* the cache holds.
C11_LastHandledResponseWins ==
  [][/\ \A q \in net :
          (q.op = "setStatus" /\ ~Handled(q))
          => \E q2 \in net' : q2.rid = q.rid /\ q2.id = q.id
                               /\ q2.status = q.status
     /\ \A r \in net :
          (Handled(r) /\ r.op = "setStatus" /\ r.origin = "table"
             /\ Succeeded(r) /\ FindIndex(_jobs, r.id) # 0
             /\ ~FindIndexThrows(_jobs, r.id))
          => _jobs'[FindIndex(_jobs, r.id)] = r.ans.job]_vars

\* Two quick actions for one job have both been answered and handled
\* without a failure; the cache holds the status asked for first, handled
\* last, while the backend holds the status it stored last.
C11_Witness ==
  /\ net = {} /\ NoFailureYet
  /\ Len(posts) = 2 /\ posts[1][1] = posts[2][1] /\ posts[1][2] # posts[2][2]
  /\ toast.type = "success" /\ toast.prefix = ""
  /\ FindIndex(_jobs, posts[1][1]) # 0
  /\ _jobs[FindIndex(_jobs, posts[1][1])].status = posts[1][2]
  /\ db[posts[1][1]].status = posts[2][2]

\* ------------------------------------------------------------------ C12
\* C12: the step that handles the failure of a view's own re-fetch after a
\* successful transition (refreshJobRow's GET of the job, the kanban's GET
\* of the applications after a move) shows no notification and leaves the
\* table and the board as they were.
C12_FailedRefetchIsSilent ==
  [][\A r \in net :
       (Handled(r) /\ ~Succeeded(r)
          /\ \/ r.op = "getJob" /\ r.origin = "refreshJobRow"
             \/ r.op = "getApplications" /\ r.origin = "kanbanMove")
       => /\ toast' = toast
          /\ _jobs' = _jobs /\ rows' = rows /\ board' = board]_vars

\* ------------------------------------------------------------------ C13
\* C13: refreshJobRow sends its GET only for a job that is in the cache,
\* and the step that handles its answer leaves every cache entry of another
\* job as it was.
C13_RefreshTouchesOnlyItsEntry ==
  [][/\ \A q \in net' :
          (q.op = "getJob" /\ q.origin = "refreshJobRow" /\ q.rid = nextRid)
          => FindIndex(_jobs, q.id) # 0 /\ q.idx = FindIndex(_jobs, q.id)
     /\ \A r \in net :
          (Handled(r) /\ r.op = "getJob" /\ r.origin = "refreshJobRow")
          => \A i \in 1..Len(_jobs) :
               _jobs[i].id # r.id
                 => i <= Len(_jobs') /\ _jobs'[i] = _jobs[i]]_vars

\* ------------------------------------------------------------------ C14
\* The cards of board b other than those of job id, column by column.
OtherCards(b, id) ==
  [c \in DOMAIN b |-> SelectSeq(b[c], LAMBDA card : card.id # id)]

\* C14: the step that handles a successful kanban move sends no request
\* for the whole collection of applications, and no later step that handles
\* the answer of such a request exists; the cards of every other job stay
\* as they were.
C14_MovePatchesOneCard ==
  [][\A r \in net :
       (Handled(r) /\ r.op = "setStatus" /\ r.origin = "kanban"
          /\ Succeeded(r))
       => /\ \A q \in net' : q.op # "getApplications"
          /\ OtherCards(board', r.id) = OtherCards(board, r.id)]_vars

\* ------------------------------------------------------------------ C15
\* C15: the step that handles the successful answer of a quick action on
\* job j leaves the cached list with the same jobs in the same order, every
\* entry but the one findIndex finds for j as it was and that one equal to
\* the returned record; and every row but j's as it was, j's row being the
\* row of the returned record.  When findIndex throws, nothing is changed.
C15_QuickActionPatchesOneRow ==
  [][\A r \in net :
       (Handled(r) /\ r.op = "setStatus" /\ r.origin = "table"
          /\ Succeeded(r))
       => /\ Len(_jobs') = Len(_jobs) /\ Len(rows') = Len(rows)
          /\ \A i \in 1..Len(_jobs) : _jobs'[i].id = _jobs[i].id
          /\ IF FindIndexThrows(_jobs, r.id)
               THEN _jobs' = _jobs /\ rows' = rows
               ELSE /\ \A i \in 1..Len(_jobs) :
                         _jobs'[i] = (IF i = FindIndex(_jobs, r.id)
                                        THEN r.ans.job ELSE _jobs[i])
                    /\ \A i \in 1..Len(rows) :
                         rows'[i] = (IF rows[i].id = r.id
                                       THEN _jobRow(r.ans.job)
                                       ELSE rows[i])]_vars

\* Reject has been clicked on the row of an applied job: its row shows
\* rejected, and the table has another row that does not.
C15_Witness ==
  /\ net = {} /\ tableDom = "rows"
  /\ toast = Toast("success", "", "Marked Rejected")
  /\ \E i, k \in 1..Len(rows) :
       /\ i # k
       /\ rows[i].id = lastOk.id /\ rows[i].status = "rejected"
       /\ _jobs[i].status = "rejected"
       /\ rows[k].status # "rejected"

\* ------------------------------------------------------------------ C16
\* C16: the table's cached list changes only in steps that handle the
\* answer of a list load, of a quick action or of refreshJobRow; and the
\* step that handles refreshJobRow's answer loses no update: every entry
\* keeps its job, and no entry goes back to an older record.
C16_CacheWritersLoseNoUpdate ==
  [][/\ _jobs' # _jobs
          => \E r \in net :
               /\ Handled(r)
               /\ \/ r.op = "getJobs"
                  \/ r.op = "setStatus" /\ r.origin = "table"
                  \/ r.op = "getJob" /\ r.origin = "refreshJobRow"
     /\ \A r \in net :
          (Handled(r) /\ r.op = "getJob" /\ r.origin = "refreshJobRow")
          => \A i \in 1..Len(_jobs) :
               /\ i <= Len(_jobs')
               /\ _jobs'[i].id = _jobs[i].id
               /\ _jobs'[i].updated_at >= _jobs[i].updated_at]_vars

\* ------------------------------------------------------------------ C17
\* C17: the step that handles the failure of a view's first read (the jobs
\* list, the applications of the board, the dashboard's reads) shows an
\* error toast and leaves the view without its loading placeholder.
C17_FailedLoadReplacesPlaceholder ==
  [][\A r \in net :
       (Handled(r) /\ ~Succeeded(r))
       => /\ (r.op = "getJobs" /\ r.origin = "_loadJobs")
               => toast'.type = "error" /\ tableDom' # "loading"
          /\ (r.op = "getApplications" /\ r.origin = "renderKanban")
               => toast'.type = "error" /\ boardDom' # "loading"
          /\ r.op = "getDashboard"
               => toast'.type = "error" /\ dashDom' # "loading"]_vars

\* ------------------------------------------------------------------ C18
\* The status text of the failing answers, which are HTTP 500.
StatusText == "Internal Server Error"

\* C18: the step that handles a non-2xx answer to a status update, a notes
\* update or a view's load shows a toast whose message is the text of the
\* response body, or the HTTP status text when the body is empty.
C18_MessageIsBodyOrStatusText ==
  [][\A r \in net :
       (Handled(r) /\ r.ans.kind = "http"
          /\ \/ r.op \in {"setStatus", "updateNotes", "getJobs",
                          "getDashboard"}
             \/ r.op = "getApplications" /\ r.origin = "renderKanban")
       => /\ toast'.type = "error"
          /\ toast'.msg = (IF r.ans.text # "" THEN r.ans.text
                           ELSE StatusText)]_vars

\* ------------------------------------------------------------------ C19
\* C19: the step that handles a failed Update-notes request shows the error
\* toast and leaves the text of panel-notes as it is; when the request is
\* the one of the panel on screen, that text is the text that was typed and
\* sent.
C19_FailedNotesSaveKeepsText ==
  [][\A r \in net :
       (Handled(r) /\ r.op = "updateNotes" /\ ~Succeeded(r))
       => /\ toast' = Toast("error", "Failed to save notes", "")
          /\ panelNotes' = panelNotes
          /\ (r.gen = panelGen /\ net = {r}) => panelNotes' = r.notes]_vars

\* A notes save has failed and the panel still holds the typed text, which
\* is neither the notes the panel was rendered with nor the backend's.
C19_Witness ==
  /\ net = {} /\ panelOpen /\ panelDom = "job"
  /\ toast = Toast("error", "Failed to save notes", "")
  /\ panelNotes # panelJob.notes
  /\ panelNotes # db[panelJob.id].notes

\* ------------------------------------------------------------------ C20
\* C20: every Set-status request carries, when it is sent, the notes the
\* backend holds for its job.
C20_TransitionKeepsSavedNotes ==
  \A r \in net :
    (r.op = "setStatus" /\ r.st = "sent") => r.notes = db[r.id].notes

\* ------------------------------------------------------------------ C21
\* C21: from the dismissal of the search overlay until a new search is
\* started, no poll timer is pending and no search-status request is
\* issued, whatever was in flight when the overlay was dismissed.
C21_DismissalCancelsPolling ==
  /\ [](~searchOverlay => timers = {})
  /\ [][~searchOverlay'
         => \A q \in net' \ net : q.op # "getSearchStatus"]_vars

\* ------------------------------------------------------------------ C22
\* A search-status request is in flight or a poll timer is pending.
Polling == timers # {} \/ \E q \in net : q.op = "getSearchStatus"

\* C22: a search started successfully sets one poll timer; each
\* search-status answer with running = true sets exactly one further timer
\* and sends nothing by itself; an answer with running = false sets none
\* and displays the dismiss button; and once the backend has answered
\* running = false, polling eventually stops.
C22_PollLoopReschedulesItself ==
  /\ [][\A r \in net :
          (Handled(r) /\ Succeeded(r)
             /\ r.op \in {"startSearch", "getSearchStatus"})
          => IF r.op = "startSearch" \/ r.ans.state.running
               THEN /\ timers \subseteq timers'
                    /\ Cardinality(timers' \ timers) = 1
                    /\ \A q \in net' \ net : q.op # "getSearchStatus"
                    /\ dismissBtn' = dismissBtn
               ELSE /\ timers' = timers
                    /\ \A q \in net' \ net : q.op # "getSearchStatus"
                    /\ dismissBtn']_vars
  /\ (\E r \in net : r.op = "getSearchStatus" /\ r.st = "answered"
                       /\ Succeeded(r) /\ ~r.ans.state.running)
       ~> ~Polling

\* One search was started, its first poll was answered running = true and
\* its second running = false: the dismiss button is displayed and nothing
\* is pending.
C22_Witness ==
  /\ searchOverlay /\ dismissBtn /\ ~Polling
  /\ nextTimer = 3 /\ NoFailureYet
  /\ left.act = SearchLiveActions - 1

\* ------------------------------------------------------------------ C23
\* The first request of a view's render function.
RenderOrigins == {"renderDashboard", "renderJobs", "renderKanban"}

\* C23: a step that renders a view anew and leaves the search overlay as
\* it is, which is navigate() run by a hash change, leaves the pending
\* poll timers and _searchPollTimer as they are.
C23_NavigationLeavesThePollLoop ==
  [][((\E q \in net' \ net : q.origin \in RenderOrigins)
        /\ searchOverlay' = searchOverlay)
     => UNCHANGED <<timers, _searchPollTimer>>]_vars

\* A search was started and the user went to another view while its poll
\* timer was pending: the view is loading and the timer is pending still.
C23_Witness ==
  /\ searchOverlay /\ ~dismissBtn /\ timers # {}
  /\ left.act = SearchActions - 2
  /\ \E q \in net : q.origin \in RenderOrigins /\ q.rid > nextTimer
                     /\ q.st = "sent" /\ _currentView # "dashboard"

\* ------------------------------------------------------------------ C24
\* C24: the step that handles a failed request sends no request of the
\* same operation, and after a failed search-status request it sets no
\* timer that would send one.
C24_NoAutomaticRetry ==
  [][\A r \in net :
       (Handled(r) /\ ~Succeeded(r))
       => /\ \A q \in net' \ net : q.op # r.op
          /\ r.op = "getSearchStatus" => timers' \subseteq timers]_vars

\* ------------------------------------------------------------------ C25
\* The user's two actions were the same transition, both requests were
\* answered 200 and both answers have been handled.
SameTransitionTwice ==
  /\ Len(posts) = 2 /\ posts[1] = posts[2]
  /\ Len(transitions) = 2
  /\ net = {} /\ NoFailureYet

\* C25: after the same transition <<id, S, notes>> was issued twice and
\* succeeded twice, the backend holds the job with status S and those
\* notes and has touched no other job, and the view the transitions came
\* from shows the job with status S: its cached record and its row in the
\* table, its card on the board.
C25_SameTransitionTwiceIsOnce ==
  SameTransitionTwice
  => LET id == posts[1][1]
         S  == posts[1][2]
     IN /\ db[id].status = S /\ db[id].notes = posts[1][3]
        /\ \A j \in Jobs \ {id} : db[j].updated_at = 0
        /\ _currentView = "jobs"
             => /\ \E i \in 1..Len(rows) : rows[i].id = id
                /\ \A i \in 1..Len(rows) :
                     rows[i].id = id => rows[i].status = S
                /\ \A i \in 1..Len(_jobs) :
                     _jobs[i].id = id
                       => _jobs[i].status = S /\ _jobs[i].notes = db[id].notes
        /\ _currentView = "pipeline"
             => /\ \E i \in 1..Len(board[S]) : board[S][i].id = id
                /\ \A c \in Range(COLUMNS) : \A i \in 1..Len(board[c]) :
                     board[c][i].id = id => c = S

\* The same quick action was clicked twice on a row and both answers are
\* in: the backend has stored the status twice.
C25_Witness ==
  SameTransitionTwice /\ _currentView = "jobs" /\ clock = 2

\* ------------------------------------------------------------------ C26
\* C26: the step that handles a list answer renders the "no jobs" state
\* when the list is empty, and rows only when it is not; the step that
\* handles an applications answer gives every column the count of its
\* jobs, and its own placeholder exactly when that count is 0.
C26_EmptyStatesAreDistinct ==
  [][\A r \in net :
       /\ (Handled(r) /\ r.op = "getJobs" /\ r.origin = "_loadJobs"
             /\ Succeeded(r))
          => IF Len(r.ans.list) = 0
               THEN tableDom' = "empty" /\ rows' = <<>>
               ELSE tableDom' = "rows" /\ Len(rows') = Len(r.ans.list)
       /\ (Handled(r) /\ r.op = "getApplications" /\ Succeeded(r))
          => \A c \in Range(COLUMNS) :
               LET n == Len(ByStatus(r.ans.list, c)) IN
               ColumnDom(boardDom', board', c) =
                 [count |-> n,
                  body |-> IF n = 0 THEN "No jobs here" ELSE "cards"]]_vars

\* The table shows its empty state, and the board has been rendered with
\* cards in some columns and none in others.
C26_Witness ==
  /\ _currentView = "jobs" /\ tableDom = "empty" /\ _jobs = <<>>
  /\ boardDom = "rendered"
  /\ \E c \in Range(COLUMNS) : Len(board[c]) = 0
  /\ \E c \in Range(COLUMNS) : Len(board[c]) > 0

\* ------------------------------------------------------------------ C27
\* The human labels of the closed set.
FixedLabel(s) ==
  IF s = "saved" THEN "Saved"
  ELSE IF s = "applied" THEN "Applied"
  ELSE IF s = "followed_up" THEN "Followed Up"
  ELSE IF s = "interview" THEN "Interview"
  ELSE IF s = "offer" THEN "Offer"
  ELSE IF s = "rejected" THEN "Rejected"
  ELSE IF s = "declined" THEN "Declined"
  ELSE "Withdrawn"

\* The label the claim gives a non-empty status.
ClaimedLabel(s) == IF s \in ClosedSet THEN FixedLabel(s) ELSE s

\* C27: every label on screen is the fixed label of its status, or the
\* status itself when that is not of the closed set: the badges of the
\* table rows and of the activity items (statusBadge), the options of the
\* panel's dropdown and its toast (modal.js _statusLabel), the toast of a
\* kanban move (kanban.js _statusLabel).
C27_LabelsAreFixedOrRaw ==
  /\ \A i \in 1..Len(rows) : rows[i].badge = ClaimedLabel(rows[i].status)
  /\ \A i \in 1..Len(activity) :
       activity[i].badge = ClaimedLabel(activity[i].status)
  /\ panelDom = "job"
       => \A i \in 1..Len(STATUSES) :
            _statusLabel(STATUSES[i]) = ClaimedLabel(STATUSES[i])
  /\ toast.prefix \in {"Status updated to ", "Moved to "}
       => toast.msg = ClaimedLabel(lastOk.status)

\* ------------------------------------------------------------------ C28
\* C28: with the table rendered, no request in flight, no request failed
\* and the panel never opened (the table's quick actions and list loads
\* are all that touched the jobs), every row shows the status the backend
\* holds for its job.
C28_TableShowsTheBackendStatus ==
  (_currentView = "jobs" /\ tableDom = "rows" /\ net = {}
     /\ panelGen = 0 /\ NoFailureYet)
  => \A i \in 1..Len(rows) :
       rows[i].status = OrSaved(db[rows[i].id].status)

\* ------------------------------------------------------------------ C29
\* C29: once every list request has been answered and handled, none has
\* failed, and nothing has changed a job, the cached list is the answer
\* to a request with the current filters.
C29_LatestListRequestWins ==
  (_currentView = "jobs" /\ tableDom # "loading" /\ net = {}
     /\ transitions = <<>> /\ panelGen = 0 /\ NoFailureYet)
  => _jobs = ListJobsWhere(db, _filters.status)

\* ------------------------------------------------------------------ C30
\* C30: once no fetch of openPanel is in flight and none has failed, the
\* open panel shows the job recorded in _currentJobId, the one openPanel
\* was called for last.
C30_PanelShowsTheJobOpenedLast ==
  (panelOpen /\ panelDom = "job" /\ NoFailureYet
     /\ \A q \in net : ~(q.op = "getJob" /\ q.origin = "openPanel"))
  => panelJob.id = _currentJobId

====
